---- MODULE Spec2Model ----
(***************************************************************************)
(* python-deployer: a Flask service that exposes one POST endpoint per     *)
(* configured app.  A signed request launches the app's deploy command,    *)
(* streams the child's output into the logger and answers with the         *)
(* outcome.  The model covers startup (config.py, main.py module body,     *)
(* production.py entrypoint), the two request gates, the deployment        *)
(* handler and the child process with its two pipes, and the stream object *)
(* of production.py that turns gunicorn's output into log records.         *)
(*                                                                         *)
(* Spec and FairSpec: one request thread, every request and child.         *)
(* ThreadedSpec: two request threads, replayed requests, quiet children.   *)
(* AdapterSpec: the texts gunicorn writes to sys.stdout.                   *)
(*                                                                         *)
(* Text is a sequence of code points, bytes are a sequence of 0..255.      *)
(***************************************************************************)
EXTENDS Integers, Sequences, FiniteSets, TLC

VARIABLES
    phase,        \* position of the interpreter in startup
    entrypoint,   \* "main" (python main.py) or "production" (python production.py)
    config_yaml,  \* what yq prints for config.yaml
    config,       \* main.config
    url_map,      \* app.url_map: the registered POST rules, in registration order
    next_app,     \* index of the app the "for deploy_app in config.apps" loop is at
    workers,      \* the request threads of the WSGI server
    clock,        \* the system wall clock, in seconds
    pc,           \* per worker: position in the handler
    request,      \* per worker: flask.request
    bound,        \* per worker: the _deploy_app the dispatched handler closes over
    start,        \* per worker: handler local "start"
    exit_code,    \* per worker: handler local "exit_code": <<>> until assigned, then <<code>>
    caught,       \* per worker: the exception in flight / caught
    proc,         \* per worker: the Popen object, the child and its two pipes
    response,     \* per worker: what the handler returned to the client
    logger,       \* the log records, per emitting thread (0 is the main thread)
    stream        \* production.py: the texts written to sys.stdout, one per write call

vars == <<phase, entrypoint, config_yaml, config, url_map, next_app, workers,
          clock, pc, request, bound, start, exit_code, caught, proc, response,
          logger, stream>>

startup_vars == <<phase, entrypoint, config_yaml, config, url_map, next_app, workers>>

-----------------------------------------------------------------------------
(* Bounds of the model *)

\* most lines one child writes before it exits
MaxLines == 3
\* capacity of an OS pipe, in lines
PipeCap == 1
\* how far the wall clock may be from Epoch
MaxSkew == 1

(* Program constants *)

\* main.py:79, the freshness window in seconds
StaleWindow == 300
\* main.py:137, Popen's return code for a child killed by SIGTERM
SIGTERM == -15

\* a reference instant of the wall clock (unix seconds)
Epoch == 1000

\* flask.request.content_length of a request that declares no Content-Length
NoLength == -1

-----------------------------------------------------------------------------
(* Text and bytes *)

AsciiDigits == 48..57
\* U+FFFD, what bytes.decode(errors="replace") puts for an undecodable byte
ReplacementChar == 65533

RECURSIVE Str(_)
\* str(n) for a natural number: its decimal digits
Str(n) == IF n < 10 THEN <<48 + n>> ELSE Str(n \div 10) \o <<48 + (n % 10)>>

\* a string of k nines: the client-side text of 10^k - 1
Nines(k) == [i \in 1..k |-> 57]

RECURSIVE Flatten(_)
Flatten(ss) == IF ss = <<>> THEN <<>> ELSE Head(ss) \o Flatten(Tail(ss))

\* one code point as UTF-8
Utf8Char(cp) ==
    IF cp < 128 THEN <<cp>>
    ELSE IF cp < 2048 THEN <<192 + (cp \div 64), 128 + (cp % 64)>>
    ELSE <<224 + (cp \div 4096), 128 + ((cp \div 64) % 64), 128 + (cp % 64)>>

\* str.encode(): UTF-8 (ASCII text is its own encoding)
Encode(text) ==
    IF \A i \in 1..Len(text) : text[i] < 128
    THEN text
    ELSE Flatten([i \in 1..Len(text) |-> Utf8Char(text[i])])

\* bytes.decode(errors="replace") as werkzeug's get_data(as_text=True) calls
\* it, on bodies made of ASCII bytes and of the bytes 0xFE, 0xFF (which no
\* UTF-8 sequence contains): every undecodable byte becomes U+FFFD
DecodeReplace(bytes) ==
    [i \in 1..Len(bytes) |-> IF bytes[i] < 128 THEN bytes[i] ELSE ReplacementChar]

\* TextIOWrapper strict decoding of one line of child output (text=True):
\* FALSE when the line holds a byte that is not valid UTF-8
DecodesStrict(bytes) == \A i \in 1..Len(bytes) : bytes[i] < 128

-----------------------------------------------------------------------------
(* config.py *)

\* Config.to_dict / Config.__str__ put this in place of the secret
Mask == <<42, 42, 42, 42, 42>>

AppAlpha == [name |-> "alpha", endpoint |-> "/deploy/alpha", run_args |-> <<"deploy-alpha.sh">>]
AppBeta == [name |-> "beta", endpoint |-> "/deploy/beta", run_args |-> <<"deploy-beta.sh">>]
\* a second app configured on AppAlpha's path
AppGamma == [name |-> "gamma", endpoint |-> "/deploy/alpha", run_args |-> <<"deploy-gamma.sh">>]

NoApp == [name |-> "", endpoint |-> "", run_args |-> <<>>]

\* the api_secret of the configuration files below: "s3"
Secret == <<115, 51>>

Sections == {"logs", "security", "apps", "gunicorn"}

ConfigFile(sections, apps) ==
    [sections |-> sections,
     apps |-> apps,
     logdir |-> "logs",
     max_payload_bytes |-> 1,
     api_secret |-> Secret,
     gunicorn |-> "main:app"]

\* the config.yaml files the service is started with
ConfigFiles ==
    { ConfigFile(Sections, <<AppAlpha, AppBeta>>),
      ConfigFile(Sections, <<AppAlpha, AppGamma>>),
      ConfigFile(Sections \ {"security"}, <<AppAlpha>>) }

NoConfig ==
    [apps |-> <<>>, logdir |-> "", max_email_payload_bytes |-> 0,
     api_secret |-> <<>>, gunicorn |-> ""]

\* load_config raises InvalidConfig (from the KeyError) when a section it
\* indexes is missing
load_config_raises(data) == data.sections # Sections

\* load_config: the Config built from the parsed file; no field is validated
load_config(data) ==
    [apps |-> data.apps,
     logdir |-> data.logdir,
     max_email_payload_bytes |-> data.max_payload_bytes,
     api_secret |-> data.api_secret,
     gunicorn |-> data.gunicorn]

\* dataclasses.asdict(config): every field, as stored
asdict(c) == c

\* Config.to_dict: asdict with the secret masked
to_dict(c) == [asdict(c) EXCEPT !.api_secret = Mask]

-----------------------------------------------------------------------------
(* Log records, exceptions, responses *)

NoView == NoConfig
NoExc == [type |-> "", hascode |-> FALSE, code |-> 0, msg |-> "", exit |-> 0]

\* one call of logger.<level>(...): the format string (msg) and what is
\* interpolated into it
LogRec(level, msg) ==
    [level |-> level, msg |-> msg, app |-> "", path |-> "", line |-> <<>>,
     run_args |-> <<>>, view |-> NoView, exc |-> NoExc,
     signature |-> "", timestamp |-> <<>>]

\* werkzeug's HTTPException that flask.abort(code, description) raises
HTTPException(code, description) ==
    [type |-> "HTTPException", hascode |-> TRUE, code |-> code, msg |-> description, exit |-> 0]

\* a Python exception without a "code" attribute
PyException(type, msg) ==
    [type |-> type, hascode |-> FALSE, code |-> 0, msg |-> msg, exit |-> 0]

NoResponse ==
    [status |-> 0, success |-> FALSE, error |-> "", message |-> "", app |-> "", elapsed |-> 0]

\* handle_exception: code = getattr(e, "code", 500); jsonify(error, code, success=False)
handle_exception(e) ==
    LET code == IF e.hascode THEN e.code ELSE 500
    IN  [status |-> code, success |-> FALSE, error |-> e.msg, message |-> "",
         app |-> "", elapsed |-> 0]

-----------------------------------------------------------------------------
(* The request and its two gates: main.py:43-98 *)

\* int(s) for a str of ASCII characters: an optional sign, then decimal
\* digits.  Python integers are unbounded; a value of more than 9 digits is
\* kept as its number of digits (big).
PyInt(text) ==
    LET signed == text # <<>> /\ text[1] \in {43, 45}
        digits == IF signed THEN Tail(text) ELSE text
        RECURSIVE Value(_)
        Value(d) == IF d = <<>> THEN 0 ELSE 10 * Value(SubSeq(d, 1, Len(d) - 1)) + (d[Len(d)] - 48)
        RECURSIVE Significant(_)
        Significant(d) == IF Len(d) > 1 /\ d[1] = 48 THEN Significant(Tail(d)) ELSE d
    IN  IF digits = <<>> \/ \E k \in 1..Len(digits) : digits[k] \notin AsciiDigits
        THEN [ok |-> FALSE, big |-> FALSE, ndigits |-> 0, val |-> 0]
        ELSE IF Len(Significant(digits)) > 9
        THEN [ok |-> TRUE, big |-> TRUE, ndigits |-> Len(Significant(digits)), val |-> 0]
        ELSE [ok |-> TRUE, big |-> FALSE, ndigits |-> Len(Significant(digits)),
              val |-> IF signed /\ text[1] = 45 THEN 0 - Value(digits) ELSE Value(digits)]

\* time.time() - n, the int n converted to float: an int of 310 digits or
\* more is beyond the largest float and the conversion raises OverflowError
\* (timestamps of exactly 309 digits are not among the modelled inputs)
float_raises(n) == n.big /\ n.ndigits > 309

Abs(x) == IF x < 0 THEN 0 - x ELSE x

\* main.py:79  abs(time.time() - int(timestamp)) > 300, for an int that
\* converts to float; the clock of the model stays below 10^9 - 300
too_old(t, n) == IF n.big THEN TRUE ELSE Abs(t - n.val) > StaleWindow

\* hmac.new(key, msg, hashlib.sha256).hexdigest(): the lowercase hex text of
\* the digest; HMAC-SHA256 is taken as collision-free, a digest is named by the
\* key and message it is of
hexdigest(key, msg) == [kind |-> "hex", digest |-> <<key, msg>>]

\* a comparison that accepts a signature once: it fails when a request that
\* carried the signature has been authenticated already (a seen-signature
\* record)
compare_digest_once(a, b) ==
    /\ a = b
    /\ ~\E v \in workers :
          /\ request[v].signature = a
          /\ pc[v] \in {"deploy", "stdout", "stderr", "wait", "return", "except", "done"}

\* hmac.compare_digest on two str: TypeError unless both are ASCII
compare_digest_raises(a, b) == a.kind = "nonascii" \/ b.kind = "nonascii"
compare_digest(a, b) == a = b

\* main.py:89-91  the signature the service expects for a request
expected_sig(secret, timestamp, body) ==
    LET message == timestamp \o body
        secret_bytes == Encode(secret)
    IN  hexdigest(secret_bytes, Encode(message))

\* what a gate did: the exception it raised (NoExc: it returned) and the
\* records it logged
Passed == [exc |-> NoExc, log |-> <<>>]

\* the size check with ">=" for ">": a request of exactly the ceiling is shed
abort_if_payload_too_large_inclusive(req, cfg) ==
    IF req.content_length # NoLength /\ req.content_length >= cfg.max_email_payload_bytes
    THEN [exc |-> HTTPException(413, "Payload too large."),
          log |-> <<[LogRec("warning", "Rejected request with payload") EXCEPT
                        !.path = req.path]>>]
    ELSE Passed

\* main.py:43-57  _abort_if_payload_too_large
abort_if_payload_too_large(req, cfg) ==
    LET max_bytes == cfg.max_email_payload_bytes
        content_length == IF req.content_length # NoLength /\ req.content_length # 0
                          THEN req.content_length ELSE 0
    IN  IF content_length > max_bytes
        THEN [exc |-> HTTPException(413, "Payload too large."),
              log |-> <<[LogRec("warning", "Rejected request with payload") EXCEPT
                            !.path = req.path]>>]
        ELSE Passed

\* main.py:60-98  _abort_if_invalid_signature, with time.time() = t
abort_if_invalid_signature(req, cfg, t) ==
    LET signature == req.signature
        timestamp == req.timestamp
        body == DecodeReplace(req.body)
    IN  IF signature.kind \in {"absent", "empty"} \/ ~timestamp.present \/ timestamp.text = <<>>
        THEN [exc |-> HTTPException(403, "Missing auth header(s)."),
              log |-> <<[LogRec("warning", "Rejected request because it was missing") EXCEPT
                            !.path = req.path,
                            !.signature = signature.kind,
                            !.timestamp = timestamp.text]>>]
        ELSE IF ~PyInt(timestamp.text).ok
        THEN [exc |-> PyException("ValueError", "invalid literal for int()"), log |-> <<>>]
        ELSE IF float_raises(PyInt(timestamp.text))
        THEN [exc |-> PyException("OverflowError", "int too large to convert to float"),
              log |-> <<>>]
        ELSE IF too_old(t, PyInt(timestamp.text))
        THEN [exc |-> HTTPException(403, "Too old."),
              log |-> <<[LogRec("warning", "Rejected request with timestamp") EXCEPT
                            !.path = req.path,
                            !.timestamp = timestamp.text]>>]
        ELSE IF compare_digest_raises(signature, expected_sig(cfg.api_secret, timestamp.text, body))
        THEN [exc |-> PyException("TypeError", "comparing strings with non-ASCII characters"),
              log |-> <<>>]
        ELSE IF ~compare_digest(signature, expected_sig(cfg.api_secret, timestamp.text, body))
        THEN [exc |-> HTTPException(403, "Invalid Signature."),
              log |-> <<[LogRec("warning", "Rejected request with invalid signature") EXCEPT
                            !.path = req.path]>>]
        ELSE Passed

-----------------------------------------------------------------------------
(* Startup: main.py module body, then the entrypoint *)

Log(t, rec) == [logger EXCEPT ![t] = Append(@, rec)]

\* main.py:17  config = load_config()
LoadConfig ==
    /\ phase = "import"
    /\ IF load_config_raises(config_yaml)
       THEN /\ phase' = "crashed"
            /\ config' = config
       ELSE /\ phase' = "routes"
            /\ config' = load_config(config_yaml)
    /\ UNCHANGED <<entrypoint, config_yaml, url_map, next_app, workers, clock, pc,
                   request, bound, start, exit_code, caught, proc, response, logger, stream>>

\* a handler that reads the loop variable deploy_app when it runs, after the
\* loop has ended: every route is bound to the last app
closure_late_binding(apps, k) == apps[Len(apps)]

\* main.py:108, 158  make_route(_deploy_app): the handler closes over the
\* parameter, which is the app of this iteration
closure(apps, k) == apps[k]

\* main.py:106-159  one iteration of "for deploy_app in config.apps":
\* make_route registers the handler under a fresh uuid name, so Flask accepts
\* the rule whatever rules are already registered
make_route ==
    /\ phase = "routes"
    /\ next_app <= Len(config.apps)
    /\ LET deploy_app == config.apps[next_app]
       IN  /\ url_map' = Append(url_map, [rule |-> deploy_app.endpoint,
                                           app |-> closure(config.apps, next_app)])
           /\ logger' = Log(0, [LogRec("debug", "Created API route") EXCEPT
                                   !.app = deploy_app.name,
                                   !.path = deploy_app.endpoint,
                                   !.run_args = deploy_app.run_args])
    /\ next_app' = next_app + 1
    /\ UNCHANGED <<phase, entrypoint, config_yaml, config, workers, clock, pc,
                   request, bound, start, exit_code, caught, proc, response, stream>>

\* main.py:162-163  python main.py: app.run(...)
RunDevelopment ==
    /\ phase = "routes"
    /\ next_app > Len(config.apps)
    /\ entrypoint = "main"
    /\ phase' = "serving"
    /\ UNCHANGED <<entrypoint, config_yaml, config, url_map, next_app, workers, clock,
                   pc, request, bound, start, exit_code, caught, proc, response, logger, stream>>

\* production.py:91-100  python production.py: log the options, run gunicorn
RunProduction ==
    /\ phase = "routes"
    /\ next_app > Len(config.apps)
    /\ entrypoint = "production"
    /\ logger' = Log(0, [LogRec("debug", "Starting gunicorn app") EXCEPT
                            !.app = config.gunicorn,
                            !.view = asdict(config)])
    /\ phase' = "serving"
    /\ UNCHANGED <<entrypoint, config_yaml, config, url_map, next_app, workers, clock,
                   pc, request, bound, start, exit_code, caught, proc, response, stream>>

-----------------------------------------------------------------------------
(* What clients send *)

\* request bodies: "a", the bytes 0xFE and 0xFF, and "aa" (over the ceiling)
Bodies == {<<97>>, <<254>>, <<255>>, <<97, 97>>}

\* X-Timestamp header values: around the freshness window, "abc", a number of
\* 310 digits, the empty header
TimestampTexts ==
    { Str(Epoch - StaleWindow - 1), Str(Epoch - StaleWindow),
      Str(Epoch + StaleWindow), Str(Epoch + StaleWindow + 1),
      <<97, 98, 99>>, Nines(310), <<>> }

Timestamps ==
    {[present |-> TRUE, text |-> t] : t \in TimestampTexts}
        \cup {[present |-> FALSE, text |-> <<>>]}

\* a key that is not the service's secret: "k"
WrongSecret == <<107>>

\* the signature a client holding key computes over the raw bytes it sends:
\* lowercase hex HMAC-SHA256(key, timestamp || body)
ClientSign(key, timestamp, body) == hexdigest(Encode(key), Encode(timestamp) \o body)

\* X-Signature header values a client may attach to (timestamp, body): none,
\* empty, a non-ASCII string, the signature of this or of another body, the
\* signature under another key, the right signature in uppercase hex
Signatures(timestamp, body) ==
    { [kind |-> k, digest |-> <<>>] : k \in {"absent", "empty", "nonascii"} }
        \cup { ClientSign(Secret, timestamp, b) : b \in Bodies \cup {Encode(<<ReplacementChar>>)} }
        \cup { ClientSign(WrongSecret, timestamp, body),
               [ClientSign(Secret, timestamp, body) EXCEPT !.kind = "HEX"] }

\* the requests a client may send to path: Content-Length is the body's
\* length, or is not declared (chunked transfer)
Requests(path) ==
    UNION { { [path |-> path, content_length |-> cl, signature |-> sig,
               timestamp |-> x[2], body |-> x[1]] :
                 cl \in {Len(x[1]), NoLength}, sig \in Signatures(x[2].text, x[1]) } :
            x \in Bodies \X Timestamps }

NoRequest ==
    [path |-> "", content_length |-> NoLength, signature |-> [kind |-> "absent", digest |-> <<>>],
     timestamp |-> [present |-> FALSE, text |-> <<>>], body |-> <<>>]

-----------------------------------------------------------------------------
(* The child process *)

\* lines a deploy command writes: "ok" and a line that is not UTF-8
Lines == {<<111, 107>>, <<255>>}

\* on stderr also "FAILED": a line the handler's heuristic takes for an error
StderrLines == Lines \cup {<<70, 65, 73, 76, 69, 68>>}

LinesOf(fd) == IF fd = "stderr" THEN StderrLines ELSE Lines

\* return codes Popen reports: success, failure, killed by SIGTERM
ExitCodes == {0, 1, SIGTERM}

NoOp == [do |-> "", fd |-> "", line |-> <<>>, code |-> 0]

\* what a child that has written n lines may do next
ChildOps(n) ==
    { [do |-> "exit", fd |-> "", line |-> <<>>, code |-> c] : c \in ExitCodes }
        \cup IF n < MaxLines
             THEN UNION { { [do |-> "write", fd |-> fd, line |-> l, code |-> 0] :
                                l \in LinesOf(fd) } : fd \in {"stdout", "stderr"} }
             ELSE {}

NoProc ==
    [state |-> "none", args |-> <<>>, op |-> NoOp, stdout |-> <<>>, stderr |-> <<>>,
     closed |-> FALSE, returncode |-> 0, written |-> 0]

\* the child blocked in, or about to make, its next system call
ChildWrite(w) ==
    /\ w \in workers
    /\ proc[w].state = "running"
    /\ proc[w].op.do = "write"
    /\ IF proc[w].closed
       THEN \* the read ends are closed: EPIPE / SIGPIPE ends the child
            \E c \in ExitCodes :
                proc' = [proc EXCEPT ![w].state = "exited", ![w].returncode = c, ![w].op = NoOp]
       ELSE /\ Len(proc[w][proc[w].op.fd]) < PipeCap
            /\ \E nxt \in ChildOps(proc[w].written + 1) :
                proc' = [proc EXCEPT ![w][proc[w].op.fd] = Append(@, proc[w].op.line),
                                     ![w].written = @ + 1,
                                     ![w].op = nxt]
    /\ UNCHANGED <<startup_vars, clock, pc, request, bound, start, exit_code, caught,
                   response, logger, stream>>

ChildExit(w) ==
    /\ w \in workers
    /\ proc[w].state = "running"
    /\ proc[w].op.do = "exit"
    /\ proc' = [proc EXCEPT ![w].state = "exited", ![w].returncode = proc[w].op.code,
                            ![w].op = NoOp]
    /\ UNCHANGED <<startup_vars, clock, pc, request, bound, start, exit_code, caught,
                   response, logger, stream>>

-----------------------------------------------------------------------------
(* The handler that make_route binds to an app: main.py:109-152 *)

\* str.lower() on ASCII text
Lower(text) == [i \in 1..Len(text) |-> IF text[i] \in 65..90 THEN text[i] + 32 ELSE text[i]]

\* pat in text
Contains(text, pat) ==
    \E i \in 0..(Len(text) - Len(pat)) : SubSeq(text, i + 1, i + Len(pat)) = pat

RECURSIVE Strip(_)
\* str.strip(): leading and trailing whitespace removed
Strip(text) ==
    IF text # <<>> /\ text[1] \in {9, 10, 13, 32} THEN Strip(Tail(text))
    ELSE IF text # <<>> /\ text[Len(text)] \in {9, 10, 13, 32}
    THEN Strip(SubSeq(text, 1, Len(text) - 1))
    ELSE text

\* main.py:132  the level a stderr line is logged at
stderr_level(line) ==
    IF Contains(Lower(line), <<101, 114, 114, 111, 114>>)
           \/ Contains(Lower(line), <<102, 97, 105, 108, 101, 100>>)
    THEN "error" ELSE "info"

\* the exit-code policy without the SIGTERM branch: -15 raises like any
\* other nonzero code
exit_policy_without_sigterm(code) == IF code # 0 THEN "raise" ELSE "ok"

\* the exit-code policy with the raise left out: a nonzero code is let through
exit_policy_never_raises(code) == IF code = SIGTERM THEN "warn" ELSE "ok"

\* main.py:137-142  what the handler does with the exit code:
\* "warn" (log a warning, go on to the success return), "raise", or "ok"
exit_policy(code) ==
    IF code = SIGTERM THEN "warn"
    ELSE IF code # 0 THEN "raise"
    ELSE "ok"

\* an except clause narrowed to OSError: only the spawn error is caught
handler_catches_oserror_only(e) == e.type = "FileNotFoundError"

\* main.py:148  "except Exception" catches every exception but those that
\* derive from BaseException alone
handler_catches(e) == e.type \notin {"KeyboardInterrupt", "SystemExit", "GeneratorExit"}

\* main.py:28  now().timestamp(): the wall clock
now == clock

\* werkzeug's url_map: the first registered rule that matches the path
Dispatch(path) ==
    LET k == CHOOSE i \in 1..Len(url_map) :
                 /\ url_map[i].rule = path
                 /\ \A j \in 1..(i - 1) : url_map[j].rule # path
    IN  url_map[k].app

\* the POST req, to the path of a registered rule, arrives at the free
\* request thread w and is dispatched
Arrive(w, req) ==
    /\ phase = "serving"
    /\ w \in workers
    /\ pc[w] = "idle"
    /\ \E i \in 1..Len(url_map) : url_map[i].rule = req.path
    /\ request' = [request EXCEPT ![w] = req]
    /\ bound' = [bound EXCEPT ![w] = Dispatch(req.path)]
    /\ pc' = [pc EXCEPT ![w] = "gate"]
    /\ UNCHANGED <<startup_vars, clock, start, exit_code, caught, proc, response, logger, stream>>

\* a client sends one of Requests to a registered path
Receive(w) ==
    /\ phase = "serving"
    /\ w \in workers
    /\ pc[w] = "idle"
    /\ \E i \in 1..Len(url_map) : \E req \in Requests(url_map[i].rule) : Arrive(w, req)

\* an exception that leaves the handler reaches @app.errorhandler(Exception)
Abort(w, out) ==
    /\ caught' = [caught EXCEPT ![w] = out.exc]
    /\ response' = [response EXCEPT ![w] = handle_exception(out.exc)]
    /\ pc' = [pc EXCEPT ![w] = "done"]

\* main.py:111  _abort_if_payload_too_large()
AdmissionGate(w) ==
    /\ w \in workers
    /\ pc[w] = "gate"
    /\ LET out == abort_if_payload_too_large(request[w], config)
       IN  /\ logger' = [logger EXCEPT ![w] = @ \o out.log]
           /\ IF out.exc # NoExc
              THEN Abort(w, out)
              ELSE /\ pc' = [pc EXCEPT ![w] = "verify"]
                   /\ UNCHANGED <<caught, response>>
    /\ UNCHANGED <<startup_vars, clock, request, bound, start, exit_code, proc, stream>>

\* main.py:112  _abort_if_invalid_signature()
VerifySignature(w) ==
    /\ w \in workers
    /\ pc[w] = "verify"
    /\ LET out == abort_if_invalid_signature(request[w], config, clock)
       IN  /\ logger' = [logger EXCEPT ![w] = @ \o out.log]
           /\ IF out.exc # NoExc
              THEN Abort(w, out)
              ELSE /\ pc' = [pc EXCEPT ![w] = "deploy"]
                   /\ UNCHANGED <<caught, response>>
    /\ UNCHANGED <<startup_vars, clock, request, bound, start, exit_code, proc, stream>>

\* a guard that admits one deployment per app at a time
launch_one_per_app(w) ==
    \A v \in workers \ {w} : ~(proc[v].state = "running" /\ bound[v] = bound[w])

\* main.py:114-119  between the gates and Popen the handler takes no lock
\* and consults no record of running deployments
launch_permitted(w) == TRUE

\* main.py:114-124  start = now(); log; subprocess.Popen(run_args, ...):
\* the child starts, or Popen raises (OSError: no such executable)
StartDeploy(w) ==
    /\ w \in workers
    /\ pc[w] = "deploy"
    /\ launch_permitted(w)
    /\ start' = [start EXCEPT ![w] = now]
    /\ logger' = Log(w, [LogRec("info", "Starting deploy") EXCEPT
                            !.app = bound[w].name, !.run_args = bound[w].run_args])
    /\ \/ \E first \in ChildOps(0) :
            /\ proc' = [proc EXCEPT ![w] = [NoProc EXCEPT !.state = "running",
                                                          !.args = bound[w].run_args,
                                                          !.op = first]]
            /\ pc' = [pc EXCEPT ![w] = "stdout"]
            /\ UNCHANGED caught
       \/ /\ caught' = [caught EXCEPT ![w] = PyException("FileNotFoundError", "No such file or directory")]
          /\ pc' = [pc EXCEPT ![w] = "except"]
          /\ UNCHANGED proc
    /\ UNCHANGED <<startup_vars, clock, request, bound, exit_code, response, stream>>

\* a read that takes an empty pipe for the end of the file (a non-blocking
\* read): the loop ends while the child may still write
at_eof_when_empty(p, fd) == p[fd] = <<>>

\* "for line in proc.<fd>" ends: the pipe is drained and its write end is
\* closed, which the child does when it exits
at_eof(p, fd) == p[fd] = <<>> /\ p.state = "exited"

\* leaving the with block without Popen.__exit__'s wait()
popen_exit_without_wait(p) == TRUE

\* Popen.__exit__ (the with block is left): the pipes are closed and
\* self.wait() returns once the child has exited
popen_exit_returns(p) == p.state # "running"

\* the logger call a line of fd goes to: main.py:127 for stdout,
\* main.py:133/135 for stderr (the format string is the same)
line_site(fd) == IF fd = "stdout" THEN "<app> line" ELSE "<app> line (stderr)"

\* one iteration of "for line in proc.<fd>" (main.py:126-135): a line is
\* read, decoded (text=True) and logged; at end of file the loop ends; with
\* the pipe empty and the child alive the read blocks.  A line that does not
\* decode raises UnicodeDecodeError: Popen.__exit__ closes both pipes.
ReadLine(w, fd, after) ==
    /\ w \in workers
    /\ pc[w] = fd
    /\ IF proc[w][fd] # <<>>
       THEN LET line == Head(proc[w][fd])
            IN  IF DecodesStrict(line)
                THEN /\ proc' = [proc EXCEPT ![w][fd] = Tail(@)]
                     /\ logger' = Log(w, [LogRec(IF fd = "stdout" THEN "info" ELSE stderr_level(line),
                                                 line_site(fd)) EXCEPT
                                             !.app = bound[w].name, !.line = Strip(line)])
                     /\ UNCHANGED <<pc, caught>>
                ELSE /\ proc' = [proc EXCEPT ![w].stdout = <<>>, ![w].stderr = <<>>,
                                             ![w].closed = TRUE]
                     /\ caught' = [caught EXCEPT ![w] = PyException("UnicodeDecodeError", "invalid start byte")]
                     /\ pc' = [pc EXCEPT ![w] = "except"]
                     /\ UNCHANGED logger
       ELSE /\ at_eof(proc[w], fd)
            /\ pc' = [pc EXCEPT ![w] = after]
            /\ UNCHANGED <<proc, caught, logger>>
    /\ UNCHANGED <<startup_vars, clock, request, bound, start, exit_code, response, stream>>

\* main.py:125-127
ReadStdout(w) == ReadLine(w, "stdout", "stderr")

\* main.py:128-135
ReadStderr(w) == ReadLine(w, "stderr", "wait")

\* main.py:136-142  exit_code = proc.wait(), then the exit-code policy
Wait(w) ==
    /\ w \in workers
    /\ pc[w] = "wait"
    /\ proc[w].state = "exited"
    /\ exit_code' = [exit_code EXCEPT ![w] = <<proc[w].returncode>>]
    /\ LET policy == exit_policy(proc[w].returncode)
       IN  /\ logger' = IF policy = "warn"
                        THEN Log(w, LogRec("warning", "Subprocess killed by SIGTERM"))
                        ELSE logger
           /\ IF policy = "raise"
              THEN /\ caught' = [caught EXCEPT ![w] =
                                    [PyException("Exception", "Subprocess exited with code") EXCEPT
                                        !.exit = proc[w].returncode]]
                   /\ pc' = [pc EXCEPT ![w] = "except"]
              ELSE /\ pc' = [pc EXCEPT ![w] = "return"]
                   /\ UNCHANGED caught
    /\ UNCHANGED <<startup_vars, clock, request, bound, start, proc, response, stream>>

\* main.py:144-146  the success return
Return(w) ==
    /\ w \in workers
    /\ pc[w] = "return"
    /\ response' = [response EXCEPT ![w] =
                       [status |-> 200, success |-> TRUE, error |-> "",
                        message |-> "Deployment succeeded", app |-> bound[w].name,
                        elapsed |-> now - start[w]]]
    /\ pc' = [pc EXCEPT ![w] = "done"]
    /\ UNCHANGED <<startup_vars, clock, request, bound, start, exit_code, caught, proc, logger, stream>>

\* main.py:148-152  the with block is left by an exception: Popen.__exit__
\* has waited for the child (when there is one); "except Exception" then
\* handles it, and what it does not catch leaves the handler
Except(w) ==
    /\ w \in workers
    /\ pc[w] = "except"
    /\ popen_exit_returns(proc[w])
    /\ IF handler_catches(caught[w])
       THEN /\ logger' = Log(w, [LogRec("error", "Failed to deploy app") EXCEPT
                                    !.app = bound[w].name, !.exc = caught[w]])
            /\ response' = [response EXCEPT ![w] =
                               [status |-> 500, success |-> FALSE, error |-> "",
                                message |-> "Deployment failed", app |-> "",
                                elapsed |-> now - start[w]]]
       ELSE /\ response' = [response EXCEPT ![w] = handle_exception(caught[w])]
            /\ UNCHANGED logger
    /\ pc' = [pc EXCEPT ![w] = "done"]
    /\ UNCHANGED <<startup_vars, clock, request, bound, start, exit_code, caught, proc, stream>>

\* the response is sent; the request thread is free again
Finish(w) ==
    /\ w \in workers
    /\ pc[w] = "done"
    /\ pc' = [pc EXCEPT ![w] = "idle"]
    /\ request' = [request EXCEPT ![w] = NoRequest]
    /\ bound' = [bound EXCEPT ![w] = NoApp]
    /\ start' = [start EXCEPT ![w] = 0]
    /\ exit_code' = [exit_code EXCEPT ![w] = <<>>]
    /\ caught' = [caught EXCEPT ![w] = NoExc]
    /\ proc' = [proc EXCEPT ![w] = NoProc]
    /\ response' = [response EXCEPT ![w] = NoResponse]
    /\ logger' = [logger EXCEPT ![w] = <<>>]
    /\ UNCHANGED <<startup_vars, clock, stream>>

\* the wall clock moves: forward as time passes, or either way when it is set
Tick ==
    /\ \E t \in Epoch..(Epoch + MaxSkew) :
          /\ t # clock
          /\ clock' = t
    /\ UNCHANGED <<startup_vars, pc, request, bound, start, exit_code, caught, proc,
                   response, logger, stream>>

-----------------------------------------------------------------------------
(* The specification *)

Threads == {1}

Init ==
    /\ phase = "import"
    /\ entrypoint \in {"main", "production"}
    /\ config_yaml \in ConfigFiles
    /\ config = NoConfig
    /\ url_map = <<>>
    /\ next_app = 1
    /\ workers = Threads
    /\ clock = Epoch
    /\ pc = [w \in Threads |-> "idle"]
    /\ request = [w \in Threads |-> NoRequest]
    /\ bound = [w \in Threads |-> NoApp]
    /\ start = [w \in Threads |-> 0]
    /\ exit_code = [w \in Threads |-> <<>>]
    /\ caught = [w \in Threads |-> NoExc]
    /\ proc = [w \in Threads |-> NoProc]
    /\ response = [w \in Threads |-> NoResponse]
    /\ logger = [t \in {0} \cup Threads |-> <<>>]
    /\ stream = <<>>

Next ==
    \/ LoadConfig
    \/ make_route
    \/ RunDevelopment
    \/ RunProduction
    \/ Tick
    \/ \E w \in workers : Receive(w)
    \/ \E w \in workers : AdmissionGate(w)
    \/ \E w \in workers : VerifySignature(w)
    \/ \E w \in workers : StartDeploy(w)
    \/ \E w \in workers : ReadStdout(w)
    \/ \E w \in workers : ReadStderr(w)
    \/ \E w \in workers : Wait(w)
    \/ \E w \in workers : Return(w)
    \/ \E w \in workers : Except(w)
    \/ \E w \in workers : Finish(w)
    \/ \E w \in workers : ChildWrite(w)
    \/ \E w \in workers : ChildExit(w)

Spec == Init /\ [][Next]_vars

\* the scheduler runs every request thread that can take a step, and the
\* operating system runs every child that is not blocked
Fairness ==
    \A w \in Threads :
        /\ WF_vars(ReadStdout(w) \/ ReadStderr(w) \/ Wait(w) \/ Return(w) \/ Except(w))
        /\ WF_vars(ChildWrite(w) \/ ChildExit(w))

FairSpec == Spec /\ Fairness

-----------------------------------------------------------------------------
(* The service under a threaded server (python main.py: werkzeug's          *)
(* development server handles each request in a thread of its own), with    *)
(* clients that replay signed requests and put app names in the body, and   *)
(* deploy commands that write "ok" to stdout.                                *)

\* two request threads at a time
Pool == {1, 2}

\* the app's name as the bytes of a request body
NameBytes(deploy_app) ==
    IF deploy_app.name = "alpha" THEN <<97, 108, 112, 104, 97>>
    ELSE IF deploy_app.name = "beta" THEN <<98, 101, 116, 97>>
    ELSE <<103, 97, 109, 109, 97>>

\* chunked requests (no Content-Length) to path whose body is the name of a
\* configured app, stamped at the edge of or well within the freshness
\* window, signed with the secret or with another key
NamedRequests(path) ==
    UNION { { [path |-> path, content_length |-> NoLength, signature |-> sig,
               timestamp |-> [present |-> TRUE, text |-> x[2]], body |-> x[1]] :
                 sig \in {ClientSign(Secret, x[2], x[1]), ClientSign(WrongSecret, x[2], x[1])} } :
            x \in {NameBytes(AppAlpha), NameBytes(AppBeta)}
                     \X {Str(Epoch - StaleWindow), Str(Epoch + StaleWindow)} }

\* a client sends one of NamedRequests to a registered path
ReceiveNamed(w) ==
    /\ phase = "serving"
    /\ w \in workers
    /\ pc[w] = "idle"
    /\ \E i \in 1..Len(url_map) : \E req \in NamedRequests(url_map[i].rule) : Arrive(w, req)

\* what a quiet deploy command does: write "ok" to stdout, exit 0
QuietOps ==
    { [do |-> "exit", fd |-> "", line |-> <<>>, code |-> 0],
      [do |-> "write", fd |-> "stdout", line |-> <<111, 107>>, code |-> 0] }

\* StartDeploy with a quiet deploy command
StartQuiet(w) == StartDeploy(w) /\ proc'[w].op \in QuietOps \cup {NoOp}

\* ChildWrite of a quiet deploy command: after its line it exits
QuietWrite(w) == ChildWrite(w) /\ proc'[w].op \in QuietOps \cup {NoOp} /\ proc'[w].op.do # "write"

\* Tick of a clock that is not set back: time passes
TickForward == Tick /\ clock' > clock

ThreadedInit ==
    /\ phase = "import"
    /\ entrypoint = "main"
    /\ config_yaml \in { ConfigFile(Sections, <<AppAlpha, AppBeta>>),
                          ConfigFile(Sections, <<AppBeta, AppAlpha>>) }
    /\ config = NoConfig
    /\ url_map = <<>>
    /\ next_app = 1
    /\ workers = Pool
    /\ clock = Epoch
    /\ pc = [w \in Pool |-> "idle"]
    /\ request = [w \in Pool |-> NoRequest]
    /\ bound = [w \in Pool |-> NoApp]
    /\ start = [w \in Pool |-> 0]
    /\ exit_code = [w \in Pool |-> <<>>]
    /\ caught = [w \in Pool |-> NoExc]
    /\ proc = [w \in Pool |-> NoProc]
    /\ response = [w \in Pool |-> NoResponse]
    /\ logger = [t \in {0} \cup Pool |-> <<>>]
    /\ stream = <<>>

ThreadedNext ==
    \/ LoadConfig
    \/ make_route
    \/ RunDevelopment
    \/ TickForward
    \/ \E w \in workers : ReceiveNamed(w)
    \/ \E w \in workers : AdmissionGate(w)
    \/ \E w \in workers : VerifySignature(w)
    \/ \E w \in workers : StartQuiet(w)
    \/ \E w \in workers : ReadStdout(w)
    \/ \E w \in workers : ReadStderr(w)
    \/ \E w \in workers : Wait(w)
    \/ \E w \in workers : Return(w)
    \/ \E w \in workers : Except(w)
    \/ \E w \in workers : Finish(w)
    \/ \E w \in workers : QuietWrite(w)
    \/ \E w \in workers : ChildExit(w)

ThreadedSpec == ThreadedInit /\ [][ThreadedNext]_vars

-----------------------------------------------------------------------------
(* production.py: the stream object that stands in for sys.stdout and        *)
(* sys.stderr under gunicorn, StreamToLoggerFromGunicornProcess              *)

\* most write calls in one behaviour
MaxWrites == 2

\* what str.rstrip() and str.split() take for whitespace (ASCII)
Whitespace == {9, 10, 11, 12, 13, 32}

AsciiLetters == (65..90) \cup (97..122)

RECURSIVE RStrip(_)
\* production.py:32  message.rstrip()
RStrip(text) ==
    IF text # <<>> /\ text[Len(text)] \in Whitespace
    THEN RStrip(SubSeq(text, 1, Len(text) - 1))
    ELSE text

\* production.py:36  \[\d{4}-\d{2}-\d{2} \d{2}:\d{2}:\d{2} [+-]\d{4}\]
\* as the class of characters at each position
GunicornTimestamp ==
    LET d == AsciiDigits
    IN  << {91}, d, d, d, d, {45}, d, d, {45}, d, d, {32}, d, d, {58}, d, d, {58}, d, d,
           {32}, {43, 45}, d, d, d, d, {93} >>

\* production.py:39  \[(\d{2}/[A-Za-z]{3}/\d{4}:\d{2}:\d{2}:\d{2} [+-]\d{4})\]
ApacheTimestamp ==
    LET d == AsciiDigits
        a == AsciiLetters
    IN  << {91}, d, d, {47}, a, a, a, {47}, d, d, d, d, {58}, d, d, {58}, d, d, {58}, d, d,
           {32}, {43, 45}, d, d, d, d, {93} >>

\* the pattern matches at the start of text
MatchesHead(text, pattern) ==
    /\ Len(pattern) <= Len(text)
    /\ \A k \in 1..Len(pattern) : text[k] \in pattern[k]

RECURSIVE ReSub(_, _, _)
\* re.sub(pattern, repl, text) for a pattern of fixed length: the leftmost
\* matches that do not overlap, each replaced by repl
ReSub(pattern, repl, text) ==
    IF text = <<>> THEN <<>>
    ELSE IF MatchesHead(text, pattern)
    THEN repl \o ReSub(pattern, repl, SubSeq(text, Len(pattern) + 1, Len(text)))
    ELSE <<Head(text)>> \o ReSub(pattern, repl, Tail(text))

RECURSIVE DigitRun(_)
\* how many digits text starts with
DigitRun(text) ==
    IF text # <<>> /\ Head(text) \in AsciiDigits THEN 1 + DigitRun(Tail(text)) ELSE 0

\* a rewrite that leaves a bracketed number as it is
keep_pid(text) == text

RECURSIVE rewrite_pid(_)
\* production.py:42  re.sub(r"\[(\d+)\]", r"(worker_pid: \1)", message)
rewrite_pid(text) ==
    IF text = <<>> THEN <<>>
    ELSE LET n == DigitRun(Tail(text))
         IN  IF Head(text) = 91 /\ n > 0 /\ Len(text) >= n + 2 /\ text[n + 2] = 93
             THEN <<40, 119, 111, 114, 107, 101, 114, 95, 112, 105, 100, 58, 32>> \o SubSeq(text, 2, n + 1) \o <<41>>
                      \o rewrite_pid(SubSeq(text, n + 3, Len(text)))
             ELSE <<Head(text)>> \o rewrite_pid(Tail(text))

RECURSIVE Replace(_, _, _)
\* str.replace(old, new): every occurrence of old, left to right (replacing
\* the empty string by the empty string changes nothing)
Replace(text, old, new) ==
    IF old = <<>> \/ Len(text) < Len(old) THEN text
    ELSE IF SubSeq(text, 1, Len(old)) = old
    THEN new \o Replace(SubSeq(text, Len(old) + 1, Len(text)), old, new)
    ELSE <<Head(text)>> \o Replace(Tail(text), old, new)

RECURSIVE SplitJoin(_)
\* " ".join(text.split()): the words of text, one space between them
SplitJoin(text) ==
    IF text = <<>> THEN <<>>
    ELSE IF Head(text) \in Whitespace THEN SplitJoin(Tail(text))
    ELSE LET rest == SplitJoin(Tail(text))
         IN  IF Len(text) > 1 /\ text[2] \in Whitespace /\ rest # <<>>
             THEN <<Head(text), 32>> \o rest
             ELSE <<Head(text)>> \o rest

\* the markers scanned most severe first
gunicorn_levels_by_severity ==
    << [level |-> "error", txt |-> <<91, 69, 82, 82, 79, 82, 93>>],
       [level |-> "warning", txt |-> <<91, 87, 65, 82, 78, 73, 78, 71, 93>>],
       [level |-> "info", txt |-> <<91, 73, 78, 70, 79, 93>>],
       [level |-> "debug", txt |-> <<91, 68, 69, 66, 85, 71, 93>>] >>

\* production.py:53-58  gunicorn_levels, in the dict's insertion order
gunicorn_levels ==
    << [level |-> "debug", txt |-> <<91, 68, 69, 66, 85, 71, 93>>],
       [level |-> "info", txt |-> <<91, 73, 78, 70, 79, 93>>],
       [level |-> "warning", txt |-> <<91, 87, 65, 82, 78, 73, 78, 71, 93>>],
       [level |-> "error", txt |-> <<91, 69, 82, 82, 79, 82, 93>>] >>

\* production.py:44-50  _log(level, gunicorn_level_txt) on the rewritten
\* message: the record handed to logger.log
log_record(message, level, gunicorn_level_txt) ==
    [LogRec(level, "gunicorn") EXCEPT
        !.line = SplitJoin(Replace(message, gunicorn_level_txt, <<>>))]

\* production.py:31-67  what one call of write(message) hands to the logger
emitted(message) ==
    LET stripped == RStrip(message)
        rewritten == rewrite_pid(ReSub(ApacheTimestamp, <<>>,
                                       ReSub(GunicornTimestamp, <<>>, stripped)))
        found == {k \in 1..Len(gunicorn_levels) : Contains(rewritten, gunicorn_levels[k].txt)}
        first == CHOOSE k \in found : \A j \in found : k <= j
    IN  IF stripped = <<>> THEN <<>>
        ELSE IF found # {}
        THEN <<log_record(rewritten, gunicorn_levels[first].level, gunicorn_levels[first].txt)>>
        ELSE <<log_record(rewritten, "info", <<>>)>>

(* What gunicorn writes *)

\* "[2025-09-03 17:17:55 -0400]"
SomeGunicornTimestamp ==
    <<91, 50, 48, 50, 53, 45, 48, 57, 45, 48, 51, 32, 49, 55, 58, 49, 55, 58, 53, 53, 32, 45,
      48, 52, 48, 48, 93>>
\* "[03/Sep/2025:17:53:48 -0400]"
SomeApacheTimestamp ==
    <<91, 48, 51, 47, 83, 101, 112, 47, 50, 48, 50, 53, 58, 49, 55, 58, 53, 51, 58, 52, 56,
      32, 45, 48, 52, 48, 48, 93>>
\* "[82608]"
SomePid == <<91, 56, 50, 54, 48, 56, 93>>
\* "Booting worker"
SomeText ==
    <<66, 111, 111, 116, 105, 110, 103, 32, 119, 111, 114, 107, 101, 114>>

\* the lines of a gunicorn process: an optional timestamp, level markers, an
\* optional worker pid, the text, an optional newline
LineParts ==
    [ts : {<<>>, SomeGunicornTimestamp, SomeApacheTimestamp},
     markers : {<<>>, <<"info">>, <<"warning">>, <<"error", "debug">>},
     pid : BOOLEAN,
     newline : BOOLEAN]

\* the text of the marker of a level
MarkerOf(level) ==
    LET k == CHOOSE i \in 1..Len(gunicorn_levels) : gunicorn_levels[i].level = level
    IN  gunicorn_levels[k].txt

\* the line made of the parts, separated by one space
LineOf(parts) ==
    (IF parts.ts = <<>> THEN <<>> ELSE parts.ts \o <<32>>)
        \o Flatten([i \in 1..Len(parts.markers) |-> MarkerOf(parts.markers[i]) \o <<32>>])
        \o (IF parts.pid THEN SomePid \o <<32>> ELSE <<>>)
        \o SomeText
        \o (IF parts.newline THEN <<10>> ELSE <<>>)

\* what print() and gunicorn write besides: nothing, a newline, blanks; a
\* marker with a timestamp in its middle; brackets that hold no number
OddTexts ==
    { <<>>, <<10>>, <<32, 9, 10>>,
      <<91, 69, 82, 82>> \o SomeGunicornTimestamp \o <<79, 82, 93, 32, 120>>,
      <<91, 49, 50, 97, 93, 32, 91, 93, 32, 120>> }

GunicornTexts == {LineOf(parts) : parts \in LineParts} \cup OddTexts

\* production.py:31  sys.stdout.write(message) under production.py
write(message) ==
    /\ phase = "serving"
    /\ entrypoint = "production"
    /\ Len(stream) < MaxWrites
    /\ stream' = Append(stream, message)
    /\ logger' = [logger EXCEPT ![0] = @ \o emitted(message)]
    /\ UNCHANGED <<phase, entrypoint, config_yaml, config, url_map, next_app, workers,
                   clock, pc, request, bound, start, exit_code, caught, proc, response>>

\* gunicorn writes one of GunicornTexts
GunicornWrites == \E message \in GunicornTexts : write(message)

AdapterInit ==
    /\ phase = "import"
    /\ entrypoint = "production"
    /\ config_yaml = ConfigFile(Sections, <<AppAlpha, AppBeta>>)
    /\ config = NoConfig
    /\ url_map = <<>>
    /\ next_app = 1
    /\ workers = Threads
    /\ clock = Epoch
    /\ pc = [w \in Threads |-> "idle"]
    /\ request = [w \in Threads |-> NoRequest]
    /\ bound = [w \in Threads |-> NoApp]
    /\ start = [w \in Threads |-> 0]
    /\ exit_code = [w \in Threads |-> <<>>]
    /\ caught = [w \in Threads |-> NoExc]
    /\ proc = [w \in Threads |-> NoProc]
    /\ response = [w \in Threads |-> NoResponse]
    /\ logger = [t \in {0} \cup Threads |-> <<>>]
    /\ stream = <<>>

AdapterNext ==
    \/ LoadConfig
    \/ make_route
    \/ RunProduction
    \/ GunicornWrites

AdapterSpec == AdapterInit /\ [][AdapterNext]_vars

-----------------------------------------------------------------------------
(* Vocabulary of the properties *)

\* the request declares more bytes than the configured ceiling
Oversized(req) ==
    req.content_length # NoLength /\ req.content_length > config.max_email_payload_bytes

\* X-Signature or X-Timestamp is absent or empty
LacksHeader(req) ==
    \/ req.signature.kind \in {"absent", "empty"}
    \/ ~req.timestamp.present
    \/ req.timestamp.text = <<>>

\* the integers whose decimal text clients send as X-Timestamp
SentInstants ==
    { Epoch - StaleWindow - 1, Epoch - StaleWindow, Epoch + StaleWindow,
      Epoch + StaleWindow + 1 }

\* the timestamp text is the decimal form of an integer
IsInteger(text) == text = Nines(310) \/ \E n \in SentInstants : text = Str(n)

\* the timestamp text is an integer T with |t - T| > 300
StaleAt(text, t) ==
    \/ text = Nines(310)
    \/ \E n \in SentInstants : text = Str(n) /\ (t - n > StaleWindow \/ n - t > StaleWindow)

\* the timestamp text is an integer T with |t - T| <= 300
FreshAt(text, t) ==
    \E n \in SentInstants : text = Str(n) /\ t - n <= StaleWindow /\ n - t <= StaleWindow

Clocks == Epoch..(Epoch + MaxSkew)

\* both headers are present and the signature is not the lowercase hex
\* HMAC-SHA256(Secret, timestamp || body) of what the request carries
WrongSignature(req) ==
    /\ ~LacksHeader(req)
    /\ req.signature # ClientSign(Secret, req.timestamp.text, req.body)

\* the handler is past the Admission Gate and the Signature Verifier
PastGates(w) == pc[w] \notin {"idle", "gate", "verify"}

\* the handler of w got through both gates into the deployment
Authenticated(w) ==
    \/ pc[w] \in {"deploy", "stdout", "stderr", "wait", "return", "except"}
    \/ pc[w] = "done" /\ response[w].message # ""

\* a subprocess was launched for the request of w
Launched(w) == proc[w].state # "none"

\* the response of w is the handler's own failure result: success false,
\* status 500, the elapsed-time message, and the last record logged before
\* it is at error level and names the app
FailureResult(w) ==
    /\ response[w].status = 500
    /\ response[w].success = FALSE
    /\ response[w].message = "Deployment failed"
    /\ response[w].elapsed \in (0 - MaxSkew)..MaxSkew
    /\ logger[w] # <<>>
    /\ logger[w][Len(logger[w])].level = "error"
    /\ logger[w][Len(logger[w])].app = bound[w].name

\* the records of logger[w] that carry a line of the child's stdout / stderr
IsStdoutEntry(rec) == rec.msg = "<app> line"
IsStderrEntry(rec) == rec.msg = "<app> line (stderr)"

-----------------------------------------------------------------------------
(* Claims *)

\* C1 (as stated): a request that is oversized, lacks a header, is stale or
\* carries a wrong signature is answered 413 or 403 and no subprocess is
\* launched for it.
C1_RejectedNeverLaunches ==
    \A w \in workers :
        ( /\ PastGates(w)
          /\ \/ Oversized(request[w])
             \/ LacksHeader(request[w])
             \/ \A t \in Clocks : StaleAt(request[w].timestamp.text, t)
             \/ WrongSignature(request[w]) )
        => /\ pc[w] = "done"
           /\ response[w].status \in {403, 413}
           /\ ~Launched(w)

\* C2 (as stated): once the child is started the handler eventually returns
\* a response, whatever the child writes to its two pipes before it exits.
C2_HandlerEventuallyResponds ==
    \A w \in Threads : (pc[w] = "stdout") ~> (pc[w] = "done")

\* C3 (as stated): exit code -15 logs a warning and is reported as a failure
\* (success false, status 500).
C3_SigtermReportedAsFailure ==
    \A w \in workers :
        (pc[w] = "done" /\ exit_code[w] = <<SIGTERM>>)
        => /\ \E i \in 1..Len(logger[w]) : logger[w][i].level = "warning"
           /\ response[w].success = FALSE
           /\ response[w].status = 500

\* C3 (amended): exit code -15 logs a warning and is reported as a success
\* (success true, status 200).
C3_SigtermWarnsAndSucceeds ==
    \A w \in workers :
        (pc[w] = "done" /\ exit_code[w] = <<SIGTERM>>)
        => /\ \E i \in 1..Len(logger[w]) :
                 /\ logger[w][i].level = "warning"
                 /\ logger[w][i].msg = "Subprocess killed by SIGTERM"
           /\ response[w].success = TRUE
           /\ response[w].status = 200

C3_Witness ==
    \E w \in workers : pc[w] = "done" /\ exit_code[w] = <<SIGTERM>>

\* C4 (as stated): both headers present and a timestamp that is no integer:
\* the response is 403, a warning is logged and no subprocess is launched.
C4_UnparseableTimestampIs403 ==
    \A w \in workers :
        ( /\ PastGates(w)
          /\ ~Oversized(request[w])
          /\ ~LacksHeader(request[w])
          /\ \E k \in 1..Len(request[w].timestamp.text) :
                request[w].timestamp.text[k] \notin AsciiDigits )
        => /\ pc[w] = "done"
           /\ response[w].status = 403
           /\ \E i \in 1..Len(logger[w]) : logger[w][i].level = "warning"
           /\ ~Launched(w)

\* C5 (as stated): with two apps configured on the same endpoint path the
\* server never accepts traffic.
C5_DuplicateEndpointNeverServes ==
    phase = "serving"
    => /\ \A i, j \in 1..Len(config_yaml.apps) :
             i # j => config_yaml.apps[i].endpoint # config_yaml.apps[j].endpoint
       /\ \A i, j \in 1..Len(url_map) : i # j => url_map[i].rule # url_map[j].rule

\* C6 (as stated): no log record carries the secret: every view of the
\* configuration that is logged has the mask in its place.
C6_SecretNeverLogged ==
    \A t \in DOMAIN logger : \A i \in 1..Len(logger[t]) :
        /\ logger[t][i].view.api_secret # config.api_secret \/ config = NoConfig
        /\ logger[t][i].view = NoView \/ logger[t][i].view.api_secret = Mask

\* C7 (as stated): a spawn error, an I/O error on a stream and every nonzero
\* exit code end in the handler's failure result.
C7_EveryFailureIsCaught ==
    \A w \in workers :
        ( /\ pc[w] = "done"
          /\ \/ caught[w].type \in {"FileNotFoundError", "UnicodeDecodeError"}
             \/ exit_code[w] # <<>> /\ exit_code[w] # <<0>> )
        => FailureResult(w)

\* C7 (amended): a spawn error, an I/O error on a stream and every nonzero
\* exit code other than -15 end in the handler's failure result, and none of
\* them leaves the handler.
C7_EveryFailureButSigtermIsCaught ==
    \A w \in workers :
        ( /\ pc[w] = "done"
          /\ \/ caught[w].type \in {"FileNotFoundError", "UnicodeDecodeError"}
             \/ exit_code[w] # <<>> /\ exit_code[w] \notin {<<0>>, <<SIGTERM>>} )
        => /\ FailureResult(w)
           /\ response[w].error = ""

C7_Witness ==
    \E w \in workers :
        /\ pc[w] = "done"
        /\ caught[w].type = "UnicodeDecodeError"
        /\ proc[w].state = "exited"

C9_StaleIs403 ==
    [][ \A w \in workers :
          ( /\ pc[w] = "verify"
            /\ pc'[w] # "verify"
            /\ ~LacksHeader(request[w])
            /\ IsInteger(request[w].timestamp.text) )
          => /\ StaleAt(request[w].timestamp.text, clock) => response'[w].status = 403
             /\ FreshAt(request[w].timestamp.text, clock) => caught'[w].msg # "Too old."
      ]_vars

\* the two byte strings have the same length and differ at exactly one index
DiffersInOneByte(b1, b2) ==
    /\ Len(b1) = Len(b2)
    /\ Cardinality({k \in 1..Len(b1) : b1[k] # b2[k]}) = 1

\* C10 (as stated): in the step that verifies a request with a fresh timestamp T
\* and body B, the request is authenticated if and only if its signature is
\* the lowercase hex HMAC-SHA256(Secret, T || B); and a signature the verifier
\* accepts for (T, B) is answered 403 for (T, B') when B' differs from B in
\* one byte.
C10_AuthenticatedIffHmac ==
    [][ \A w \in workers :
          ( /\ pc[w] = "verify"
            /\ pc'[w] # "verify"
            /\ FreshAt(request[w].timestamp.text, clock) )
          => /\ pc'[w] = "deploy"
                  <=> request[w].signature
                          = ClientSign(Secret, request[w].timestamp.text, request[w].body)
             /\ pc'[w] = "deploy"
                  => \A b \in Bodies :
                        DiffersInOneByte(b, request[w].body)
                        => abort_if_invalid_signature(
                               [request[w] EXCEPT !.body = b], config, clock).exc
                             = HTTPException(403, "Invalid Signature.")
      ]_vars

\* the request carries both headers, a timestamp within 300 seconds of t and
\* the lowercase hex HMAC-SHA256(Secret, timestamp || body) of its raw body
ValidlySigned(req, t) ==
    /\ FreshAt(req.timestamp.text, t)
    /\ req.signature = ClientSign(Secret, req.timestamp.text, req.body)

\* C11: the Admission Gate decides first and on the declared length alone: a
\* request that declares more than the ceiling is answered 413, launches
\* nothing and is never looked at by the Signature Verifier, whatever its
\* signature; a request that declares the ceiling or less, or no length,
\* goes on to signature verification and is never answered 413.
C11_AdmissionGateFirst ==
    \A w \in workers :
        pc[w] \notin {"idle", "gate"}
        => IF Oversized(request[w])
           THEN /\ pc[w] = "done"
                /\ response[w].status = 413
                /\ caught[w] = HTTPException(413, "Payload too large.")
                /\ ~Launched(w)
                /\ \A i \in 1..Len(logger[w]) :
                      logger[w][i].msg = "Rejected request with payload"
           ELSE /\ pc[w] = "verify" \/ PastGates(w)
                /\ response[w].status # 413
                /\ \A i \in 1..Len(logger[w]) :
                      logger[w][i].msg # "Rejected request with payload"

\* an oversized request with a valid signature has been answered 413
C11_Witness ==
    \E w \in workers :
        /\ pc[w] = "done"
        /\ response[w].status = 413
        /\ ValidlySigned(request[w], clock)

\* the Signature Verifier has decided on the request of w
Verified(w) == PastGates(w) /\ ~Oversized(request[w])

\* what the Signature Verifier decided for w: authenticated, or the
\* description of the rejection
Verdict(w) == IF Authenticated(w) THEN "authenticated" ELSE response[w].error

\* the timestamp text is as fresh at every instant of the model's clock
TimeInsensitive(text) ==
    \A t1, t2 \in Clocks : FreshAt(text, t1) <=> FreshAt(text, t2)

\* the step is the Signature Verifier deciding on the request of w
Verifies(w) == pc[w] = "verify" /\ pc'[w] # "verify"

\* C12: verification keeps no record of what it has seen.  A verification
\* step changes nothing but the position, the response and the log of its
\* own request (no program state that a verification reads); two requests
\* with the same timestamp, body and signature, verified at instants between
\* which the freshness of the timestamp did not change, get the same
\* verdict; and a correctly signed request whose timestamp is within 300
\* seconds is authenticated at every verification, also while or after the
\* same request is or was authenticated on another thread.
C12_VerificationIsStateless ==
    /\ [](\A v, w \in workers :
            ( /\ Verified(v) /\ Verified(w)
              /\ request[v] = request[w]
              /\ TimeInsensitive(request[w].timestamp.text) )
            => Verdict(v) = Verdict(w))
    /\ [][ \A w \in workers :
             Verifies(w)
             => /\ UNCHANGED <<startup_vars, clock, request, bound, start, exit_code,
                              proc, stream>>
                /\ \A v \in workers \ {w} :
                      UNCHANGED <<pc[v], caught[v], response[v], logger[v]>>
                /\ UNCHANGED logger[0]
                /\ ValidlySigned(request[w], clock) => pc'[w] = "deploy"
         ]_vars

\* a correctly signed request is authenticated on one thread while the same
\* request stands authenticated on the other
C12_Witness ==
    \E v, w \in workers :
        /\ v # w
        /\ request[v] = request[w]
        /\ Authenticated(v) /\ pc[v] = "done"
        /\ pc[w] = "deploy"

\* C13 (as stated): the elapsed time a deployment result reports is >= 0,
\* however the wall clock moved between the start of the deployment and the
\* moment the result was determined.
C13_ElapsedNonNegative ==
    \A w \in workers :
        (pc[w] = "done" /\ response[w].message # "") => response[w].elapsed >= 0

\* the configured app whose endpoint is path
AppAt(path) == CHOOSE a \in {config.apps[k] : k \in 1..Len(config.apps)} : a.endpoint = path

\* C14: with pairwise distinct endpoints, a request that got through both
\* gates at A.endpoint launches A.run_args and nothing else, and every
\* record the handler logs for it carries A.name, whatever the body and
\* the order of registration.
C14_BindingsAreIndependent ==
    \A w \in workers :
        Authenticated(w)
        => /\ \E k \in 1..Len(config.apps) : config.apps[k].endpoint = request[w].path
           /\ bound[w] = AppAt(request[w].path)
           /\ Launched(w) => proc[w].args = AppAt(request[w].path).run_args
           /\ \A i \in 1..Len(logger[w]) :
                 logger[w][i].msg \in {"Starting deploy", "<app> line", "<app> line (stderr)",
                                       "Failed to deploy app"}
                 => logger[w][i].app = AppAt(request[w].path).name
           /\ logger[w] # <<>>
                 => logger[w][1].run_args = AppAt(request[w].path).run_args

\* the command of the app registered first has been launched, and a line
\* of it logged, by a request whose body names the other app
C14_Witness ==
    \E w \in workers :
        /\ Launched(w)
        /\ Len(config.apps) = 2
        /\ request[w].path = config.apps[1].endpoint
        /\ request[w].body = NameBytes(config.apps[2])
        /\ \E i \in 1..Len(logger[w]) : IsStdoutEntry(logger[w][i])

\* the line holds "error" or "failed", in any mix of upper and lower case
MentionsFailure(line) ==
    \E word \in {<<101, 114, 114, 111, 114>>, <<102, 97, 105, 108, 101, 100>>} :
        \E k \in 0..(Len(line) - Len(word)) :
            \A j \in 1..Len(word) : line[k + j] \in {word[j], word[j] - 32}

\* the step is the handler of w reading its child's stderr
ReadsStderr(w) == pc[w] = "stderr" /\ (pc'[w] # pc[w] \/ logger'[w] # logger[w])

\* C15 (as stated): a stderr line is logged at error level iff it holds
\* "error" or "failed" (any case), at info level otherwise; and what the child
\* writes to stderr never changes the outcome: reading stderr always leads
\* on to the wait for the exit code, and the exit code alone decides success
\* and status.
C15_StderrNeverDecides ==
    /\ [](\A w \in workers :
            (pc[w] = "done" /\ exit_code[w] # <<>>)
            => response[w].success = (exit_code[w] \in {<<0>>, <<SIGTERM>>})
               /\ response[w].status = IF exit_code[w] \in {<<0>>, <<SIGTERM>>} THEN 200 ELSE 500)
    /\ [][ \A w \in workers :
             ReadsStderr(w)
             => /\ pc'[w] \in {"stderr", "wait"}
                /\ proc[w].stderr # <<>>
                     => /\ Len(logger'[w]) = Len(logger[w]) + 1
                        /\ LET rec == logger'[w][Len(logger'[w])]
                               line == Head(proc[w].stderr)
                           IN  /\ IsStderrEntry(rec)
                               /\ rec.level = IF MentionsFailure(line) THEN "error" ELSE "info"
         ]_vars

\* the handler of v is blocked on its running child
BlockedOnChild(v) ==
    /\ pc[v] \in {"stdout", "stderr", "wait", "except"}
    /\ proc[v].state = "running"

\* C16: no handler waits for another.  While the handler of v is blocked on
\* its child, a free thread can take a request to any endpoint and a
\* request on another thread can take its next step, to the launch of a
\* child of the same app included.
C16_HandlersExcludeNothing ==
    \A v, w \in workers :
        (v # w /\ BlockedOnChild(v))
        => /\ (phase = "serving" /\ pc[w] = "idle")
                => \A i \in 1..Len(url_map) : \A req \in NamedRequests(url_map[i].rule) :
                      ENABLED Arrive(w, req)
           /\ pc[w] = "gate" => ENABLED AdmissionGate(w)
           /\ pc[w] = "verify" => ENABLED VerifySignature(w)
           /\ pc[w] = "deploy" => ENABLED StartQuiet(w)
           /\ pc[w] = "return" => ENABLED Return(w)
           /\ pc[w] = "done" => ENABLED Finish(w)

\* two children of the same app are running at once
C16_Witness ==
    \E v, w \in workers :
        /\ v # w
        /\ bound[v] = bound[w]
        /\ proc[v].state = "running"
        /\ proc[w].state = "running"

Blank(text) == \A i \in 1..Len(text) : text[i] \in Whitespace

\* the records the adapter handed to the logger, and the writes that were
\* not blank, both in order
AdapterEvents == SelectSeq(logger[0], LAMBDA rec : rec.msg = "gunicorn")
NonBlankWrites == SelectSeq(stream, LAMBDA text : ~Blank(text))

\* the fixed order of the markers
MarkerPriority == <<"debug", "info", "warning", "error">>

\* the level of the first marker, in the fixed order, that text contains;
\* info when it contains none
MarkerLevel(text) ==
    LET found == {k \in 1..Len(MarkerPriority) : Contains(text, MarkerOf(MarkerPriority[k]))}
    IN  IF found = {} THEN "info"
        ELSE MarkerPriority[CHOOSE k \in found : \A j \in found : k <= j]

\* text with its bracketed timestamps removed
TimestampsRemoved(text) ==
    ReSub(ApacheTimestamp, <<>>, ReSub(GunicornTimestamp, <<>>, text))

\* C18 (as stated): every write that is not blank is emitted at the level
\* of the first marker, in the order [DEBUG], [INFO], [WARNING], [ERROR],
\* that the written line contains, and at info when it contains none.
C18_LevelOfFirstMarker ==
    /\ Len(AdapterEvents) = Len(NonBlankWrites)
    /\ \A k \in 1..Len(AdapterEvents) :
          AdapterEvents[k].level = MarkerLevel(NonBlankWrites[k])

\* C18 (amended): every write that is not blank is emitted at the level of
\* the first marker, in the order [DEBUG], [INFO], [WARNING], [ERROR], that
\* the line contains once its bracketed timestamps are removed, and at info
\* when it then contains none.
C18_LevelOfFirstMarkerAfterRemoval ==
    /\ Len(AdapterEvents) = Len(NonBlankWrites)
    /\ \A k \in 1..Len(AdapterEvents) :
          AdapterEvents[k].level = MarkerLevel(TimestampsRemoved(NonBlankWrites[k]))

\* a line with [ERROR] ahead of [DEBUG] has been emitted at debug level
C18_Witness ==
    \E k \in 1..Len(AdapterEvents) :
        /\ k <= Len(NonBlankWrites)
        /\ Contains(NonBlankWrites[k], MarkerOf("error") \o <<32>> \o MarkerOf("debug"))
        /\ AdapterEvents[k].level = "debug"

\* "(worker_pid: 82608)"
RewrittenPid == <<40, 119, 111, 114, 107, 101, 114, 95, 112, 105, 100, 58, 32, 56, 50, 54, 48, 56, 41>>

\* what the line made of the parts is emitted as: the markers but the
\* matched one, the rewritten pid, the text
TextOf(parts) ==
    (IF parts.markers = <<"error", "debug">> THEN MarkerOf("error") \o <<32>> ELSE <<>>)
        \o (IF parts.pid THEN RewrittenPid \o <<32>> ELSE <<>>)
        \o SomeText

\* the level the line made of the parts is emitted at
LevelOf(parts) ==
    IF parts.markers = <<>> THEN "info" ELSE parts.markers[Len(parts.markers)]

\* "[2025-09-03 17:17:55 -0400] [INFO] [82608] Booting worker"
BootingWorkerLine ==
    <<91, 50, 48, 50, 53, 45, 48, 57, 45, 48, 51, 32, 49, 55, 58, 49, 55, 58, 53, 53, 32, 45,
      48, 52, 48, 48, 93, 32, 91, 73, 78, 70, 79, 93, 32, 91, 56, 50, 54, 48, 56, 93, 32, 66,
      111, 111, 116, 105, 110, 103, 32, 119, 111, 114, 107, 101, 114>>

\* C19: a write emits one event when its text is not blank and none when it
\* is; the event of a write depends on its text alone (the same text gives
\* the same event whatever was written before); the emitted text is the
\* line without its timestamp and its matched marker, with [N] rewritten to
\* (worker_pid: N) and single spaces between the words; and the "Booting
\* worker" line is emitted at info level as "(worker_pid: 82608) Booting
\* worker".
C19_OneEventPerLine ==
    /\ Len(AdapterEvents) = Len(NonBlankWrites)
    /\ \A j, k \in 1..Len(AdapterEvents) :
          NonBlankWrites[j] = NonBlankWrites[k] => AdapterEvents[j] = AdapterEvents[k]
    /\ \A k \in 1..Len(AdapterEvents) :
          /\ \A parts \in LineParts :
                NonBlankWrites[k] = LineOf(parts)
                => /\ AdapterEvents[k].line = TextOf(parts)
                   /\ AdapterEvents[k].level = LevelOf(parts)
          /\ NonBlankWrites[k] = BootingWorkerLine
                => /\ AdapterEvents[k].level = "info"
                   /\ AdapterEvents[k].line = RewrittenPid \o <<32>> \o SomeText
          /\ \A i \in 1..Len(AdapterEvents[k].line) :
                /\ AdapterEvents[k].line[i] \in Whitespace
                     => /\ AdapterEvents[k].line[i] = 32
                        /\ 1 < i /\ i < Len(AdapterEvents[k].line)
                        /\ AdapterEvents[k].line[i + 1] # 32

\* the "Booting worker" line has been written after a blank write, and
\* emitted
C19_Witness ==
    /\ Len(stream) = 2
    /\ stream[1] = <<10>>
    /\ stream[2] = BootingWorkerLine
    /\ Len(AdapterEvents) = 1
    /\ AdapterEvents[1].line = RewrittenPid \o <<32>> \o SomeText

\* C20: in the log of one execution no stdout line comes after a stderr
\* line, and a stderr line is logged only once the child's stdout is at
\* end-of-file (drained, the child having exited).
C20_StdoutEntriesFirst ==
    \A w \in workers :
        /\ \A i, j \in 1..Len(logger[w]) :
              (IsStderrEntry(logger[w][i]) /\ IsStdoutEntry(logger[w][j])) => j < i
        /\ (\E i \in 1..Len(logger[w]) : IsStderrEntry(logger[w][i]))
           => (proc[w].stdout = <<>> /\ proc[w].state = "exited")

\* a log that holds a stdout line and a stderr line of the same child
C20_Witness ==
    \E w \in workers :
        \E i, j \in 1..Len(logger[w]) :
            IsStdoutEntry(logger[w][i]) /\ IsStderrEntry(logger[w][j])

====
